---- MODULE Spec2Model ----
(***************************************************************************)
(* Simulated-annealing optimizer of src/main.py: the annealing engine      *)
(* (simulated_annealing) driven by the multi-run orchestrator              *)
(* (run_multiple_runs), with the progress and log sinks they call, and the *)
(* Tk application (SAApp) that runs a session in a worker thread: its      *)
(* handlers on_run, on_stop, poll_log_queue, the callbacks scheduled with  *)
(* after(0, ...), and worker_task.                                         *)
(*                                                                         *)
(* Numbers.  Coordinates are integers in tenths (x = 9 is 0.9).  Scores    *)
(* are in thousandths (milli): f_variant1 is computed exactly up to the    *)
(* logarithm, which is a fixed-point binary logarithm.  Probabilities and  *)
(* uniform draws are in millionths.  A temperature is the exact rational   *)
(* [num, den].  A random generator is a deterministic function of its      *)
(* seed (a small congruential generator stands for numpy's PCG64).         *)
(***************************************************************************)
EXTENDS Integers, Sequences, FiniteSets, TLC

\* ------------------------------------------------------------ bounds
MaxRuns == 2
MaxAttempts == 2
MaxIter == 2
MaxSeed == 2
\* clicks on the stop button in one lifetime of the window
MaxStops == 1
\* sessions started in one lifetime of the window
MaxSessions == 1
\* sessions that follow the first in a window used again
MaxReruns == 1

\* ------------------------------------------------- program constants
\* max_iter = 10**9 when max_iter is missing or not positive
DefaultMaxIter == 1000000000
\* progress interval default: max(1, max_iter // 1000)
ProgressDivisor == 1000
\* log interval default: max(1, per_run_max // 200)
LogDivisor == 200
\* init_bounds = (-1.5, 2.0), in tenths
InitLow == -15
InitHigh == 20
\* the absent value of an optional argument (None)
None == -1

Max(a, b) == IF a >= b THEN a ELSE b
Min(a, b) == IF a <= b THEN a ELSE b

RECURSIVE Pow(_, _)
Pow(b, k) == IF k <= 0 THEN 1 ELSE b * Pow(b, k - 1)

\* ------------------------------------------------------ math.log
\* (An intermediate value is bound once, as the one element of a set, so
\* that it is computed once wherever the operator is evaluated.)
\* floor(log2(n/d)) for n/d >= 1
RECURSIVE FloorLog2(_, _)
FloorLog2(n, d) ==
    CHOOSE out \in { IF nn < 2 * dd THEN 0 ELSE 1 + FloorLog2(nn, 2 * dd) :
                     nn \in {n}, dd \in {d} } : TRUE

\* k fraction bits of (D + r)/D, by long division (r < D)
RECURSIVE MantissaBits(_, _, _)
MantissaBits(r, D, k) ==
    IF k = 0 THEN 0
    ELSE CHOOSE out \in
           { IF 2 * rr >= DD THEN Pow(2, k - 1) + MantissaBits(2 * rr - DD, DD, k - 1)
             ELSE MantissaBits(2 * rr, DD, k - 1) : rr \in {r}, DD \in {D} } : TRUE

\* k fraction bits of log2(M/4096), 4096 <= M < 8192, by repeated squaring
\* (sq is the square of the mantissa, at the same scale)
RECURSIVE Log2Sq(_, _)
Log2Sq(sq, k) ==
    IF k = 0 THEN 0
    ELSE CHOOSE out \in
           { IF s >= 8192
             THEN Pow(2, k - 1) + Log2Sq(((s \div 2) * (s \div 2)) \div 4096, k - 1)
             ELSE Log2Sq((s * s) \div 4096, k - 1) : s \in {sq} } : TRUE

Log2Frac(M, k) == Log2Sq((M * M) \div 4096, k)

\* log2 times ln 2 = 0.693, in thousandths
LogOf(e, n, D) ==
    ((e * 1024 + Log2Frac(4096 + MantissaBits(n - D, D, 12), 10)) * 693) \div 1024

\* math.log(n/d) in thousandths, n/d >= 1
math_log(n, d) ==
    CHOOSE out \in { LogOf(e, n, d * Pow(2, e)) : e \in {FloorLog2(n, d)} } : TRUE

\* ------------------------------------------------------ math.exp
\* the alternating series of exp(-r/1000) in millionths, 0 <= r < 693
RECURSIVE ExpSeries(_, _, _)
ExpSeries(r, k, term) ==
    CHOOSE out \in
      { IF t = 0 \/ k > 12 THEN 0
        ELSE t - ExpSeries(r, k + 1, (t * r) \div (1000 * (k + 1))) : t \in {term} } : TRUE

\* math.exp(y/1000) in millionths; exp(-y) = 2^-q * exp(-r), y = 693 q + r
math_exp(y) ==
    IF y >= 0 THEN 1000000
    ELSE LET q == (-y) \div 693
             r == (-y) % 693
         IN IF q > 20 THEN 0 ELSE ExpSeries(r, 0, 1000000) \div Pow(2, q)

\* ------------------------------------------------- f_variant1
\* val * 10^5 = 4 (x1-9)^4 + 4 (x2-6)^4 + 6 (x3-9)^4 + 400000, x in tenths
f_val(x) ==
    4 * Pow(x[1] - 9, 4) + 4 * Pow(x[2] - 6, 4) + 6 * Pow(x[3] - 9, 4) + 400000

f_variant1(x) == math_log(f_val(x), 100000)


\* ------------------------------------------- numpy random Generator
\* The generator is its integer state; every draw reads the state and
\* advances it.  np.random.default_rng(seed) is a function of the seed.
Advance(g) == (g * 37 + 11) % 101

default_rng(seed) == Advance(seed % 101)

\* Generator.random(): a uniform draw of [0, 1), in tenths
random10(g) == <<2, 6, 8>>[(g % 3) + 1]

\* Generator.random() in millionths
random(g) == random10(g) * 100000

\* one standard normal draw
standard_normal(g) == (g % 3) - 1

\* Generator.normal(scale=step_scale, size=3): three successive draws
normal(g, scale) ==
    << scale * standard_normal(g),
       scale * standard_normal(Advance(g)),
       scale * standard_normal(Advance(Advance(g))) >>

\* Generator.uniform(low, high, size=3): low + (high - low) * random()
uniform(g, low, high) ==
    << low + ((high - low) * random10(g)) \div 10,
       low + ((high - low) * random10(Advance(g))) \div 10,
       low + ((high - low) * random10(Advance(Advance(g)))) \div 10 >>

Advance3(g) == Advance(Advance(Advance(g)))

\* ------------------------------------------------------------ state
VARIABLES
    params,            \* the arguments of run_multiple_runs (and its sinks)
    pc,                \* the position of the session
    rng_master,        \* run_multiple_runs: the master generator
    per_run_max,       \* run_multiple_runs: param_kwargs["max_iter"]
    total_estimated,   \* run_multiple_runs: n_runs * per_run_max
    run,               \* run_multiple_runs: the loop variable
    all_results,       \* run_multiple_runs: the run results so far
    best,              \* run_multiple_runs: the returned best (a sequence of 0 or 1)
    res,               \* the value simulated_annealing returned (0 or 1)
    x0,                \* simulated_annealing: the initial state vector
    rng,               \* simulated_annealing: the run's generator
    x_curr, f_curr, T, trace, iter_count,   \* simulated_annealing: locals
    max_iter, progress_interval, log_interval,
    attempt,           \* simulated_annealing: the position in range(attempts_per_T)
    last_accept,       \* the last attempt: [df, T, drew, u, accept, x_new, f_new]
    local_calls,       \* calls of the engine's progress_callback in this run
    progress_calls,    \* calls received by the session's progress sink
    log_calls,         \* calls received by the session's log sink
    abort_cause,       \* what aborted the session ("" while it has not)
    f_fault,           \* the evaluation << run, iteration >> at which f raises
    btn_run, btn_stop, \* SAApp: the state of the two buttons
    txt_log,           \* SAApp: the lines of the log view
    progress_value,    \* SAApp: progress['value']
    lbl_progress,      \* SAApp: lbl_progress['text']
    result_vars,       \* SAApp: the result fields
    messagebox,        \* the title of the last error dialog ("" if none)
    stop_event,        \* SAApp: _stop_event
    log_queue,         \* SAApp: log_queue
    after_queue,       \* Tk: the callbacks scheduled with after(0, ...)
    worker_thread,     \* the position of worker_task ("idle": no live thread)
    thread_args,       \* the params dict given to the thread (0 or 1)
    stop_checked,      \* worker_task: whether the event was set at its check (0 or 1)
    files,             \* worker_task: the export files it has written
    task_log,          \* worker_task: the kinds of the lines it has logged itself
    delivered,         \* worker_task: its call of finish_run (0 or 1)
    sessions,          \* worker threads started so far
    stop_clicks        \* clicks on the stop button so far

vars == << params, pc, rng_master, per_run_max, total_estimated, run,
           all_results, best, res, x0, rng, x_curr, f_curr, T, trace,
           iter_count, max_iter, progress_interval, log_interval, attempt,
           last_accept, local_calls, progress_calls, log_calls, abort_cause,
           f_fault, btn_run, btn_stop, txt_log, progress_value, lbl_progress,
           result_vars, messagebox, stop_event, log_queue, after_queue,
           worker_thread, thread_args, stop_checked, files, task_log,
           delivered, sessions, stop_clicks >>

orchVars == << rng_master, per_run_max, total_estimated, run, all_results, best >>
engineVars == << x0, rng, x_curr, f_curr, T, trace, iter_count, max_iter,
                 progress_interval, log_interval, attempt, last_accept >>
sinkVars == << local_calls, progress_calls, log_calls, abort_cause >>
\* the widgets and what the UI thread owns
widgetVars == << btn_run, btn_stop, txt_log, progress_value, lbl_progress,
                result_vars, messagebox, sessions, stop_clicks >>
\* what worker_task has done, for the claims about it
taskVars == << stop_checked, files, task_log, delivered >>
\* everything outside run_multiple_runs
appVars == << f_fault, widgetVars, stop_event, log_queue, after_queue,
             worker_thread, thread_args, taskVars >>

\* ------------------------------------------------------- parameters
\* initial temperatures: two above Tmin, and Tmin itself (no step is attempted)
T0Set == {1, 4, 10}
TminSet == {1}
AlphaSet == {[num |-> 1, den |-> 2]}
StepScaleSet == {10}
\* the seeds: a range, and a seed whose first two runs end with equal scores
SeedSet == (0..MaxSeed) \cup {89}
ParamSets ==
    [ n_runs : 1..MaxRuns,
      seed : SeedSet,
      T0 : T0Set,
      Tmin : TminSet,
      alpha : AlphaSet,
      attempts_per_T : 1..MaxAttempts,
      step_scale : StepScaleSet,
      max_iter : (0..MaxIter) \cup {100},
      progress_interval : {None, 3},
      log_interval : {None, 2},
      has_progress : BOOLEAN,
      has_log : BOOLEAN,
      sinks_raise : {TRUE} ]

\* the parameters the specification calls valid
ValidParams ==
    /\ params.T0 > params.Tmin /\ params.Tmin > 0
    /\ params.alpha.num > 0 /\ params.alpha.num < params.alpha.den
    /\ params.attempts_per_T >= 1
    /\ params.max_iter >= 1

NoAttempt == [df |-> 0, T |-> [num |-> 0, den |-> 1], drew |-> FALSE, u |-> 0,
              accept |-> FALSE, x_new |-> <<0, 0, 0>>, f_new |-> 0,
              x_old |-> <<0, 0, 0>>, f_old |-> 0, g_old |-> 0]

\* no evaluation of f raises: run 0 does not exist
NoFault == << 0, 0 >>

\* the text of lbl_progress: a fixed text, or "value/maximum (percent%)"
Label(text, value, maximum, percent) ==
    [text |-> text, value |-> value, maximum |-> maximum, percent |-> percent]

\* the result fields, all set to ""
ClearedResult ==
    [x1 |-> << >>, x2 |-> << >>, x3 |-> << >>, f |-> << >>,
     excel |-> "", csv |-> "", png |-> ""]

\* SAApp.__init__ and create_widgets
InitApp ==
    /\ btn_run = "normal"
    /\ btn_stop = "disabled"
    /\ txt_log = << >>
    /\ progress_value = 0
    /\ lbl_progress = Label("ready", 0, 0, 0)
    /\ result_vars = ClearedResult
    /\ messagebox = ""
    /\ stop_event = FALSE
    /\ log_queue = << >>
    /\ after_queue = << >>
    /\ worker_thread = "idle"
    /\ thread_args = << >>
    /\ stop_checked = << >>
    /\ files = {}
    /\ task_log = << >>
    /\ delivered = << >>
    /\ sessions = 0
    /\ stop_clicks = 0

\* the locals of run_multiple_runs and simulated_annealing before the call
InitLocals ==
    /\ pc = "start"
    /\ rng_master = 0
    /\ per_run_max = 0
    /\ total_estimated = 0
    /\ run = 0
    /\ all_results = << >>
    /\ best = << >>
    /\ res = << >>
    /\ x0 = <<0, 0, 0>>
    /\ rng = 0
    /\ x_curr = <<0, 0, 0>>
    /\ f_curr = 0
    /\ T = [num |-> 0, den |-> 1]
    /\ trace = << >>
    /\ iter_count = 0
    /\ max_iter = 0
    /\ progress_interval = 0
    /\ log_interval = 0
    /\ attempt = 0
    /\ last_accept = NoAttempt
    /\ local_calls = << >>
    /\ progress_calls = << >>
    /\ log_calls = << >>
    /\ abort_cause = ""

\* a session of run_multiple_runs called directly, with any sinks
Init ==
    /\ params \in ParamSets
    /\ f_fault = NoFault
    /\ InitLocals
    /\ InitApp

\* ------------------------------------- simulated_annealing: helpers
\* while T > Tmin and iter_count < max_iter
TGreater(Tc, Tmin) == Tc.num > Tmin * Tc.den

\* bugs of the while test: a cap test one short; a test T >= Tmin
WhileCond_one_short(Tc, Tmin, i, cap) == TGreater(Tc, Tmin) /\ i < cap - 1

WhileCond_inclusive(Tc, Tmin, i, cap) == Tc.num >= Tmin * Tc.den /\ i < cap

WhileCond(Tc, Tmin, i, cap) == TGreater(Tc, Tmin) /\ i < cap

\* bug: the temperature is multiplied by alpha twice after a sweep
Cooled_twice(Tc, alpha) ==
    [num |-> Tc.num * alpha.num * alpha.num, den |-> Tc.den * alpha.den * alpha.den]

\* T *= alpha
Cooled(Tc, alpha) == [num |-> Tc.num * alpha.num, den |-> Tc.den * alpha.den]

\* p = exp(-df / T), in millionths
AcceptProb(df, Tc) == math_exp(-((df * Tc.den) \div Tc.num))

\* bug: the branch df <= 0 is missing
Accepts_only_worse(df, Tc, u) == df > 0 /\ u < AcceptProb(df, Tc)

\* if df <= 0: accept, else accept when rng.random() < p
Accepts(df, Tc, u) == df <= 0 \/ u < AcceptProb(df, Tc)

\* bugs: the score is updated on every step; the score is never updated
ScoreAfter_always(accept, f_new, f_old) == f_new

ScoreAfter_stale(accept, f_new, f_old) == f_old

\* bug: the state moves to the candidate on every step
StateAfter_always(accept, x_new, x_old) == x_new

\* if accept: x_curr = x_new; f_curr = f_new
StateAfter(accept, x_new, x_old) == IF accept THEN x_new ELSE x_old

ScoreAfter(accept, f_new, f_old) == IF accept THEN f_new ELSE f_old

\* bug: the test iter_count >= max_iter is missing
ProgressDue_no_cap(i, interval, cap) == i % interval = 0 \/ i = 1

\* bug: only the interval decides
ProgressDue_interval_only(i, interval, cap) == i % interval = 0

\* iter_count % progress_interval == 0 or iter_count == 1 or iter_count >= max_iter
ProgressDue(i, interval, cap) == i % interval = 0 \/ i = 1 \/ i >= cap

\* iter_count % log_interval == 0
LogDue(i, interval) == i % interval = 0

\* bug: the break is missing
CapReached_never(i, cap) == FALSE

\* if iter_count >= max_iter: break
CapReached(i, cap) == i >= cap

\* bug: a sink that raises ends the sweep
Swallowed_break(raised, resume) == IF raised THEN "cool" ELSE resume

\* try: callback(...) except Exception: pass -- the loop goes on at resume
Swallowed(raised, resume) == resume

\* f(x) raises at the evaluation the fault names (iteration 0: f(x0))
ObjectiveRaises(r, i) == f_fault = << r, i >>

\* bug: the loop over the runs goes on after a run that raised
Uncaught_next_run(cause) == "for_run"

\* no try around f(...) or simulated_annealing(...): the exception leaves
\* simulated_annealing and run_multiple_runs
Uncaught(cause) == "aborted"

\* bug: the delta column is left at zero
TraceEntry_no_delta(i, Tc, x, f, df) == << i, Tc, x[1], x[2], x[3], f, 0 >>

\* the trace row (iter_count, T, *x_curr.tolist(), f_curr, df)
TraceEntry(i, Tc, x, f, df) == << i, Tc, x[1], x[2], x[3], f, df >>

\* bug: the result is the best entry of the trace, not the final state
ReturnValue_best(x, f, tr) ==
    IF tr = << >> THEN [x |-> x, f |-> f, trace |-> tr]
    ELSE LET k == CHOOSE j \in 1..Len(tr) : \A m \in 1..Len(tr) : tr[j][6] <= tr[m][6]
         IN [x |-> << tr[k][3], tr[k][4], tr[k][5] >>, f |-> tr[k][6], trace |-> tr]

\* result = {"x": x_curr, "f": f_curr, "trace": df_trace}
ReturnValue(x, f, tr) == [x |-> x, f |-> f, trace |-> tr]

\* ---------------------------------------- run_multiple_runs: helpers
\* bug: the offset of the earlier runs is missing
local_progress_no_offset(r, iteration, local_max) == iteration

\* global_iter = (run - 1) * local_max + iteration
local_progress(r, iteration, local_max) == (r - 1) * local_max + iteration

\* bug: every run is seeded with the session's seed
RunSeed_shared(seed, r) == seed

\* rng = np.random.default_rng(seed + run)
RunSeed(seed, r) == seed + r

\* local_progress_interval / local_log_interval
LocalInterval(given, cap, divisor) ==
    IF given = None THEN Max(1, cap \div divisor) ELSE given

\* min(all_results, key=lambda r: float(r["f"])): the first minimal element
RECURSIVE MinFrom(_, _, _)
MinFrom(rs, i, cur) ==
    IF i > Len(rs) THEN cur
    ELSE MinFrom(rs, i + 1, IF rs[i].f < cur.f THEN rs[i] ELSE cur)

\* bug: the last minimal element
RECURSIVE MinFromLast(_, _, _)
MinFromLast(rs, i, cur) ==
    IF i > Len(rs) THEN cur
    ELSE MinFromLast(rs, i + 1, IF rs[i].f <= cur.f THEN rs[i] ELSE cur)

PyMin_last(rs) == MinFromLast(rs, 2, rs[1])

PyMin(rs) == MinFrom(rs, 2, rs[1])

\* the log lines, by their fields
IterMessage(r, i, Tc, f) == [kind |-> "iteration", run |-> r, iter |-> i, T |-> Tc, f |-> f]
FinishedMessage(r, f) ==
    [kind |-> "finished", run |-> r, iter |-> 0, T |-> [num |-> 0, den |-> 1], f |-> f]

\* ------------------------------------------------------------ actions
\* run_multiple_runs, up to its loop
Enter ==
    /\ pc = "start"
    /\ rng_master' = default_rng(params.seed)
    /\ all_results' = << >>
    /\ per_run_max' = params.max_iter
    /\ total_estimated' = params.n_runs * params.max_iter
    /\ run' = 0
    /\ pc' = "for_run"
    /\ UNCHANGED << params, best, res, engineVars, sinkVars >>

\* one turn of the loop up to the call, and simulated_annealing up to its loop
BeginRun ==
    /\ pc = "for_run"
    /\ run < params.n_runs
    /\ ~ObjectiveRaises(run + 1, 0)
    /\ LET r == run + 1
           start == uniform(rng_master, InitLow, InitHigh)
           cap == IF params.max_iter <= 0 THEN DefaultMaxIter ELSE params.max_iter
           lpi == LocalInterval(params.progress_interval, per_run_max, ProgressDivisor)
           lli == LocalInterval(params.log_interval, per_run_max, LogDivisor)
       IN /\ run' = r
          /\ x0' = start
          /\ rng_master' = Advance3(rng_master)
          /\ rng' = default_rng(RunSeed(params.seed, r))
          /\ x_curr' = start
          /\ f_curr' = f_variant1(start)
          /\ T' = [num |-> params.T0, den |-> 1]
          /\ trace' = << >>
          /\ iter_count' = 0
          /\ max_iter' = cap
          /\ progress_interval' = IF lpi = None \/ lpi <= 0
                                  THEN Max(1, cap \div ProgressDivisor) ELSE lpi
          /\ log_interval' = lli
    /\ attempt' = 0
    /\ last_accept' = NoAttempt
    /\ local_calls' = << >>
    /\ res' = << >>
    /\ pc' = "while"
    /\ UNCHANGED << params, per_run_max, total_estimated, all_results, best,
                    progress_calls, log_calls, abort_cause >>

\* the while test holds: enter the sweep
WhileEnter ==
    /\ pc = "while"
    /\ WhileCond(T, params.Tmin, iter_count, max_iter)
    /\ attempt' = 0
    /\ pc' = IF params.attempts_per_T > 0 THEN "for" ELSE "cool"
    /\ UNCHANGED << params, orchVars, res, x0, rng, x_curr, f_curr, T, trace,
                    iter_count, max_iter, progress_interval, log_interval,
                    last_accept, sinkVars >>

\* one attempt: the body of the for loop
Attempt ==
    /\ pc = "for"
    /\ ~ObjectiveRaises(run, iter_count + 1)
    \* pfail, lfail: whether the progress sink and the log sink raise when
    \* called; both calls are inside try/except, so the step is the same
    /\ \E pfail \in {FALSE, params.sinks_raise}, lfail \in {FALSE, params.sinks_raise} :
       \E x_new \in {<< x_curr[1] + normal(rng, params.step_scale)[1],
                       x_curr[2] + normal(rng, params.step_scale)[2],
                       x_curr[3] + normal(rng, params.step_scale)[3] >>} :
       \E f_new \in {f_variant1(x_new)} :
       \E df \in {f_new - f_curr} :
       \E u \in {IF df > 0 THEN random(Advance3(rng)) ELSE 0} :
       \E accept \in {Accepts(df, T, u)} :
         LET g1 == Advance3(rng)
             drew == df > 0
             x_after == StateAfter(accept, x_new, x_curr)
             f_after == ScoreAfter(accept, f_new, f_curr)
             i == iter_count + 1
             pcall == ProgressDue(i, progress_interval, max_iter)
             lcall == LogDue(i, log_interval)
         IN /\ rng' = IF drew THEN Advance(g1) ELSE g1
            /\ x_curr' = x_after
            /\ f_curr' = f_after
            /\ trace' = Append(trace, TraceEntry(iter_count, T, x_after, f_after, df))
            /\ iter_count' = i
            /\ last_accept' = [df |-> df, T |-> T, drew |-> drew, u |-> u,
                               accept |-> accept, x_new |-> x_new, f_new |-> f_new,
                               x_old |-> x_curr, f_old |-> f_curr,
                               g_old |-> rng]
            /\ local_calls' = IF pcall THEN Append(local_calls, << i, max_iter >>)
                              ELSE local_calls
            /\ progress_calls' =
                 IF pcall /\ params.has_progress
                 THEN Append(progress_calls,
                             << local_progress(run, i, max_iter), total_estimated >>)
                 ELSE progress_calls
            /\ log_calls' =
                 IF lcall /\ params.has_log
                 THEN Append(log_calls, IterMessage(run, i, T, f_after))
                 ELSE log_calls
            /\ abort_cause' = abort_cause
            /\ IF CapReached(i, max_iter)
               THEN pc' = "cool" /\ attempt' = attempt
               ELSE /\ attempt' = attempt + 1
                    /\ pc' = Swallowed((pcall /\ params.has_progress /\ pfail)
                                         \/ (lcall /\ params.has_log /\ lfail),
                                      IF attempt + 1 < params.attempts_per_T
                                      THEN "for" ELSE "cool")
    /\ UNCHANGED << params, orchVars, res, x0, T, max_iter, progress_interval,
                    log_interval >>

\* T *= alpha, after the sweep or after the break
Cool ==
    /\ pc = "cool"
    /\ T' = Cooled(T, params.alpha)
    /\ pc' = "while"
    /\ UNCHANGED << params, orchVars, res, x0, rng, x_curr, f_curr, trace,
                    iter_count, max_iter, progress_interval, log_interval,
                    attempt, last_accept, sinkVars >>

\* the while test fails: simulated_annealing returns
Return ==
    /\ pc = "while"
    /\ ~WhileCond(T, params.Tmin, iter_count, max_iter)
    /\ res' = << ReturnValue(x_curr, f_curr, trace) >>
    /\ pc' = "returned"
    /\ UNCHANGED << params, orchVars, engineVars, sinkVars >>

\* the rest of the loop turn: the summary and the "run finished" log line,
\* which is called outside any try
EndRun ==
    /\ pc = "returned"
    /\ all_results' = Append(all_results,
                             [run |-> run, x |-> res[1].x, f |-> res[1].f,
                              trace |-> res[1].trace])
    /\ IF params.has_log
       THEN \E lfail \in {FALSE, params.sinks_raise} :
              /\ log_calls' = Append(log_calls, FinishedMessage(run, res[1].f))
              /\ abort_cause' = IF lfail THEN "log_callback raised" ELSE abort_cause
              /\ pc' = IF lfail THEN "aborted" ELSE "for_run"
       ELSE /\ UNCHANGED << log_calls, abort_cause >>
            /\ pc' = "for_run"
    /\ UNCHANGED << params, rng_master, per_run_max, total_estimated, run, best,
                    res, engineVars, local_calls, progress_calls >>

\* after the loop: best = min(...), return all_results, best
SelectBest ==
    /\ pc = "for_run"
    /\ run >= params.n_runs
    /\ IF all_results = << >>
       THEN pc' = "aborted" /\ best' = best /\ abort_cause' = "min of an empty sequence"
       ELSE pc' = "done" /\ best' = << PyMin(all_results) >> /\ abort_cause' = abort_cause
    /\ UNCHANGED << params, rng_master, per_run_max, total_estimated, run,
                    all_results, res, engineVars, local_calls, progress_calls,
                    log_calls >>

\* f raises where the fault says: in simulated_annealing before the loop
\* (f(x_curr) of the run that begins) or in an attempt (f(x_new))
ObjectiveFails ==
    /\ \/ pc = "for_run" /\ run < params.n_runs /\ ObjectiveRaises(run + 1, 0)
       \/ pc = "for" /\ ObjectiveRaises(run, iter_count + 1)
    /\ IF pc = "for_run"
       THEN /\ run' = run + 1
            /\ x0' = uniform(rng_master, InitLow, InitHigh)
            /\ rng_master' = Advance3(rng_master)
            /\ rng' = default_rng(RunSeed(params.seed, run + 1))
       ELSE /\ rng' = Advance3(rng)
            /\ UNCHANGED << run, x0, rng_master >>
    /\ pc' = Uncaught("objective raised")
    /\ abort_cause' = "objective raised"
    /\ UNCHANGED << params, per_run_max, total_estimated, all_results, best, res,
                    x_curr, f_curr, T, trace, iter_count, max_iter,
                    progress_interval, log_interval, attempt, last_accept,
                    local_calls, progress_calls, log_calls >>

\* a session of run_multiple_runs called directly
Next ==
    \/ Enter /\ UNCHANGED appVars
    \/ BeginRun /\ UNCHANGED appVars
    \/ WhileEnter /\ UNCHANGED appVars
    \/ Attempt /\ UNCHANGED appVars
    \/ Cool /\ UNCHANGED appVars
    \/ Return /\ UNCHANGED appVars
    \/ EndRun /\ UNCHANGED appVars
    \/ SelectBest /\ UNCHANGED appVars

Spec == Init /\ [][Next]_vars

\* every step of the session is taken by the one thread that runs it
FairSpec == Spec /\ WF_vars(Next)

\* ------------------------------------------------------ SAApp: helpers
\* a log line without numbers, by its kind:
\*   "project_dir"    Проектная папка (файлы будут сохранены здесь): ...
\*   "starting"       Запуск {n_runs} прогонов имитации отжига...
\*   "stop_requested" Запрос на прерывание получен. ...
\*   "interrupted"    Выполнение было прервано пользователем.
\*   "files_saved", "excel_path", "csv_path", "png_path"  Файлы сохранены: ...
\*   "export_error"   Ошибка при сохранении файлов: ...
\*   "done"           Готово.
\*   "failed"         Выполнение завершилось с ошибкой: ...
Msg(kind) == [kind |-> kind, run |-> 0, iter |-> 0, T |-> [num |-> 0, den |-> 1], f |-> 0]

\* the text of an entry of the form: a decimal integer, a number that is
\* no decimal integer, or no number
EntryInt(v) == [txt |-> "int", val |-> v]
EntryFloat(v) == [txt |-> "float", val |-> v]
EntryText == [txt |-> "other", val |-> 0]

\* int(s) and float(s) raise ValueError on a text they do not accept
IntParses(e) == e.txt = "int"
FloatParses(e) == e.txt \in {"int", "float"}

BaseForm ==
    [ n_runs |-> EntryInt(2), T0 |-> EntryFloat(4), Tmin |-> EntryFloat(1),
      alpha |-> EntryFloat([num |-> 1, den |-> 2]),
      attempts_per_T |-> EntryInt(1), step_scale |-> EntryFloat(10),
      max_iter |-> EntryInt(2), seed |-> EntryInt(0) ]

\* what the user may have typed when the run button is pressed
UIForms ==
    { BaseForm,
      [BaseForm EXCEPT !.n_runs = EntryInt(1)],
      [BaseForm EXCEPT !.max_iter = EntryInt(100)],
      [BaseForm EXCEPT !.n_runs = EntryInt(0)],
      [BaseForm EXCEPT !.T0 = EntryFloat(0)],
      [BaseForm EXCEPT !.Tmin = EntryFloat(0)],
      [BaseForm EXCEPT !.alpha = EntryFloat([num |-> 3, den |-> 2])],
      [BaseForm EXCEPT !.attempts_per_T = EntryInt(0)],
      [BaseForm EXCEPT !.step_scale = EntryFloat(0)],
      [BaseForm EXCEPT !.n_runs = EntryFloat(2)],
      [BaseForm EXCEPT !.seed = EntryText] }

\* the try block of on_run: every int(...) and float(...) succeeds
FormParses(form) ==
    /\ IntParses(form.n_runs) /\ FloatParses(form.T0) /\ FloatParses(form.Tmin)
    /\ FloatParses(form.alpha) /\ IntParses(form.attempts_per_T)
    /\ FloatParses(form.step_scale) /\ IntParses(form.max_iter)
    /\ IntParses(form.seed)

\* the params dict of on_run
ParsedForm(form) ==
    [ n_runs |-> form.n_runs.val, T0 |-> form.T0.val, Tmin |-> form.Tmin.val,
      alpha |-> form.alpha.val, attempts_per_T |-> form.attempts_per_T.val,
      step_scale |-> form.step_scale.val, max_iter |-> form.max_iter.val,
      seed |-> form.seed.val ]

\* worker_task: the arguments it gives to run_multiple_runs; progress_cb
\* and log_cb are always given and do not raise
WorkerKwargs(a) ==
    [ n_runs |-> a.n_runs, seed |-> a.seed, T0 |-> a.T0, Tmin |-> a.Tmin,
      alpha |-> a.alpha, attempts_per_T |-> a.attempts_per_T,
      step_scale |-> a.step_scale, max_iter |-> a.max_iter,
      progress_interval |-> Max(1, a.max_iter \div ProgressDivisor),
      log_interval |-> Max(1, a.max_iter \div LogDivisor),
      has_progress |-> TRUE, has_log |-> TRUE, sinks_raise |-> FALSE ]

\* bug: a queue of bounded size, whose put waits when it is full
PutEnabled_bounded(q) == Len(q) < 2

\* self.log_queue = queue.Queue(): no maxsize, put never waits
PutEnabled(q) == TRUE

\* bug: the stop event is not looked at
StopRequested_ignored(ev) == FALSE

\* if self._stop_event.is_set()
StopRequested(ev) == ev

\* a callback scheduled with self.after(0, ...)
SetProgressCall(value, maximum) ==
    [fn |-> "set_progress", value |-> value, maximum |-> maximum, result |-> << >>]

\* finish_run(None, None, None) has result << >>
FinishRunCall(result) ==
    [fn |-> "finish_run", value |-> 0, maximum |-> 0, result |-> result]

ConfigCall(fn) == [fn |-> fn, value |-> 0, maximum |-> 0, result |-> << >>]

\* bug: after a failed export the result is replaced by the failure outcome
Delivered_discarded(failed, b, paths) ==
    IF failed THEN << >> ELSE << [x |-> b.x, f |-> b.f, paths |-> paths] >>

\* x = best["x"]; fval = best["f"]; the arguments of finish_run
Delivered(failed, b, paths) == << [x |-> b.x, f |-> b.f, paths |-> paths] >>

\* the export steps (excel, csv, png, in this order) done when step s fails
DoneBefore(s) ==
    IF s = "excel" THEN {}
    ELSE IF s = "csv" THEN {"excel"}
    ELSE IF s = "png" THEN {"excel", "csv"}
    ELSE {"excel", "csv", "png"}

\* the lines logged by the export: the paths, or the error of the except
ExportLines(failed) ==
    IF failed = "none"
    THEN << "files_saved", "excel_path", "csv_path", "png_path" >>
    ELSE << "export_error" >>

\* the paths worker_task holds after the export
SavedPaths ==
    [excel |-> "sa_results_variant1.xlsx", csv |-> "sa_trace_variant1_best.csv",
     png |-> "sa_convergence_variant1.png"]
NoPaths == [excel |-> "", csv |-> "", png |-> ""]

\* f"{float(v):.9g}": nine significant digits
Format9g(v) ==
    IF v > -1000000000 /\ v < 1000000000 THEN << v >>
    ELSE IF v >= 0 THEN << ((v + 5) \div 10) * 10 >>
    ELSE << -(((-v + 5) \div 10) * 10) >>

\* percent = int(100 * (value / maximum)), 0 when maximum <= 0
Percent(value, maximum) ==
    IF maximum <= 0 THEN 0 ELSE (100 * value) \div maximum

\* the calls of the sinks in a step of run_multiple_runs reach the UI:
\* log_cb puts the line on log_queue, progress_cb schedules set_progress
Marshal ==
    /\ worker_thread = "runs"
    /\ Len(log_calls') > Len(log_calls) => PutEnabled(log_queue)
    /\ log_queue' = log_queue \o SubSeq(log_calls', Len(log_calls) + 1, Len(log_calls'))
    /\ after_queue' =
         after_queue \o
           [k \in 1..(Len(progress_calls') - Len(progress_calls)) |->
              SetProgressCall(progress_calls'[Len(progress_calls) + k][1],
                              progress_calls'[Len(progress_calls) + k][2])]
    /\ UNCHANGED << f_fault, widgetVars, stop_event, worker_thread, thread_args,
                    taskVars >>

\* ------------------------------------------------------ SAApp: actions
\* the run button, pressed with one of the forms typed
RunPressed(forms) ==
    /\ btn_run = "normal"
    /\ \E form \in forms :
         IF FormParses(form)
         THEN /\ btn_run' = "disabled"
              /\ btn_stop' = "normal"
              /\ txt_log' = << >>
              /\ progress_value' = 0
              /\ lbl_progress' = Label("starting", 0, 0, 0)
              /\ result_vars' = ClearedResult
              /\ stop_event' = FALSE
              /\ worker_thread' = "started"
              /\ thread_args' = << ParsedForm(form) >>
              /\ sessions' = sessions + 1
              /\ messagebox' = messagebox
         ELSE /\ messagebox' = "parameter error"
              /\ UNCHANGED << btn_run, btn_stop, txt_log, progress_value,
                              lbl_progress, result_vars, stop_event,
                              worker_thread, thread_args, sessions >>
    /\ UNCHANGED << params, pc, orchVars, res, engineVars, sinkVars, f_fault,
                    log_queue, after_queue, taskVars, stop_clicks >>

\* the run button in a window where MaxSessions sessions are started
on_run ==
    /\ sessions < MaxSessions
    /\ RunPressed(UIForms)

\* the stop button
on_stop ==
    /\ btn_stop = "normal"
    /\ stop_clicks < MaxStops
    /\ PutEnabled(log_queue)
    /\ stop_event' = TRUE
    /\ log_queue' = Append(log_queue, Msg("stop_requested"))
    /\ stop_clicks' = stop_clicks + 1
    /\ UNCHANGED << params, pc, orchVars, res, engineVars, sinkVars, f_fault,
                    btn_run, btn_stop, txt_log, progress_value, lbl_progress,
                    result_vars, messagebox, sessions, after_queue,
                    worker_thread, thread_args, taskVars >>

\* the timer callback: every queued line goes to the log view
poll_log_queue ==
    /\ log_queue # << >>
    /\ txt_log' = txt_log \o log_queue
    /\ log_queue' = << >>
    /\ UNCHANGED << params, pc, orchVars, res, engineVars, sinkVars, f_fault,
                    btn_run, btn_stop, progress_value, lbl_progress,
                    result_vars, messagebox, sessions, stop_clicks, stop_event,
                    after_queue, worker_thread, thread_args, taskVars >>

\* set_progress(value, maximum)
set_progress ==
    /\ after_queue # << >>
    /\ Head(after_queue).fn = "set_progress"
    /\ progress_value' = Percent(Head(after_queue).value, Head(after_queue).maximum)
    /\ lbl_progress' = Label("progress", Head(after_queue).value,
                             Head(after_queue).maximum,
                             Percent(Head(after_queue).value, Head(after_queue).maximum))
    /\ after_queue' = Tail(after_queue)
    /\ UNCHANGED << params, pc, orchVars, res, engineVars, sinkVars, f_fault,
                    btn_run, btn_stop, txt_log, result_vars, messagebox,
                    sessions, stop_clicks, stop_event, log_queue,
                    worker_thread, thread_args, taskVars >>

\* finish_run(x, fval, paths)
finish_run ==
    /\ after_queue # << >>
    /\ Head(after_queue).fn = "finish_run"
    /\ IF Head(after_queue).result = << >>
       THEN /\ result_vars' = ClearedResult
            /\ lbl_progress' = Label("finished (error/interrupted)", 0, 0, 0)
       ELSE /\ result_vars' =
                 [x1 |-> Format9g(Head(after_queue).result[1].x[1]),
                  x2 |-> Format9g(Head(after_queue).result[1].x[2]),
                  x3 |-> Format9g(Head(after_queue).result[1].x[3]),
                  f |-> Format9g(Head(after_queue).result[1].f),
                  excel |-> Head(after_queue).result[1].paths.excel,
                  csv |-> Head(after_queue).result[1].paths.csv,
                  png |-> Head(after_queue).result[1].paths.png]
            /\ lbl_progress' = Label("ready", 0, 0, 0)
    /\ after_queue' = Tail(after_queue)
    /\ UNCHANGED << params, pc, orchVars, res, engineVars, sinkVars, f_fault,
                    btn_run, btn_stop, txt_log, progress_value, messagebox,
                    sessions, stop_clicks, stop_event, log_queue,
                    worker_thread, thread_args, taskVars >>

\* the two lambdas of the finally block that configure the buttons
config_button ==
    /\ after_queue # << >>
    /\ Head(after_queue).fn \in {"btn_run_normal", "btn_stop_disabled"}
    /\ btn_run' = IF Head(after_queue).fn = "btn_run_normal" THEN "normal" ELSE btn_run
    /\ btn_stop' = IF Head(after_queue).fn = "btn_stop_disabled" THEN "disabled" ELSE btn_stop
    /\ after_queue' = Tail(after_queue)
    /\ UNCHANGED << params, pc, orchVars, res, engineVars, sinkVars, f_fault,
                    txt_log, progress_value, lbl_progress, result_vars,
                    messagebox, sessions, stop_clicks, stop_event, log_queue,
                    worker_thread, thread_args, taskVars >>

\* worker_task up to the call of run_multiple_runs
worker_start ==
    /\ worker_thread = "started"
    /\ PutEnabled(log_queue)
    /\ log_queue' = log_queue \o << Msg("project_dir"), Msg("starting") >>
    /\ params' = WorkerKwargs(thread_args[1])
    /\ pc' = "start"
    /\ best' = << >>
    /\ res' = << >>
    /\ local_calls' = << >>
    /\ progress_calls' = << >>
    /\ log_calls' = << >>
    /\ abort_cause' = ""
    /\ stop_checked' = << >>
    /\ files' = {}
    /\ task_log' = << "project_dir", "starting" >>
    /\ delivered' = << >>
    /\ worker_thread' = "runs"
    /\ UNCHANGED << rng_master, per_run_max, total_estimated, run, all_results,
                    engineVars, f_fault, widgetVars, stop_event, after_queue,
                    thread_args >>

\* run_multiple_runs has returned: the check of the stop event
worker_check_stop ==
    /\ worker_thread = "runs"
    /\ pc = "done"
    /\ PutEnabled(log_queue)
    /\ stop_checked' = << stop_event >>
    /\ IF StopRequested(stop_event)
       THEN /\ log_queue' = Append(log_queue, Msg("interrupted"))
            /\ task_log' = Append(task_log, "interrupted")
            /\ after_queue' = Append(after_queue, FinishRunCall(<< >>))
            /\ delivered' = << FinishRunCall(<< >>) >>
            /\ worker_thread' = "finally"
       ELSE /\ UNCHANGED << log_queue, task_log, after_queue, delivered >>
            /\ worker_thread' = "export"
    /\ UNCHANGED << params, pc, orchVars, res, engineVars, sinkVars, f_fault,
                    widgetVars, stop_event, thread_args, files >>

\* the export, whose step failed may raise ("none": no step does), and the
\* delivery of the result
worker_export ==
    /\ worker_thread = "export"
    /\ PutEnabled(log_queue)
    /\ \E failed \in {"none", "excel", "csv", "png"} :
         /\ files' = files \cup DoneBefore(failed)
         /\ task_log' = task_log \o ExportLines(failed) \o << "done" >>
         /\ log_queue' =
              log_queue \o
                [k \in 1..(Len(ExportLines(failed)) + 1) |->
                   Msg((ExportLines(failed) \o << "done" >>)[k])]
         /\ delivered' =
              << FinishRunCall(Delivered(failed # "none", best[1],
                                         IF failed = "none" THEN SavedPaths
                                         ELSE NoPaths)) >>
         /\ after_queue' = Append(after_queue, delivered'[1])
    /\ worker_thread' = "finally"
    /\ UNCHANGED << params, pc, orchVars, res, engineVars, sinkVars, f_fault,
                    widgetVars, stop_event, thread_args, stop_checked >>

\* except Exception: run_multiple_runs raised
worker_except ==
    /\ worker_thread = "runs"
    /\ pc = "aborted"
    /\ PutEnabled(log_queue)
    /\ log_queue' = Append(log_queue, Msg("failed"))
    /\ task_log' = Append(task_log, "failed")
    /\ after_queue' = Append(after_queue, FinishRunCall(<< >>))
    /\ delivered' = << FinishRunCall(<< >>) >>
    /\ worker_thread' = "finally"
    /\ UNCHANGED << params, pc, orchVars, res, engineVars, sinkVars, f_fault,
                    widgetVars, stop_event, thread_args, stop_checked, files >>

\* finally: three callbacks are scheduled and the thread ends
worker_finally ==
    /\ worker_thread = "finally"
    /\ after_queue' = after_queue \o << ConfigCall("btn_run_normal"),
                                        ConfigCall("btn_stop_disabled"),
                                        SetProgressCall(0, 1) >>
    /\ worker_thread' = "idle"
    /\ UNCHANGED << params, pc, orchVars, res, engineVars, sinkVars, f_fault,
                    widgetVars, stop_event, log_queue, thread_args, taskVars >>

\* the steps of the worker thread
worker_task ==
    \/ worker_start
    \/ Enter /\ Marshal
    \/ BeginRun /\ Marshal
    \/ WhileEnter /\ Marshal
    \/ Attempt /\ Marshal
    \/ Cool /\ Marshal
    \/ Return /\ Marshal
    \/ EndRun /\ Marshal
    \/ SelectBest /\ Marshal
    \/ ObjectiveFails /\ Marshal
    \/ worker_check_stop
    \/ worker_export
    \/ worker_except
    \/ worker_finally

\* the steps of the UI thread
mainloop ==
    \/ on_run
    \/ on_stop
    \/ poll_log_queue
    \/ set_progress
    \/ finish_run
    \/ config_button

\* the evaluations at which the objective may raise
FaultSet == {NoFault, << 1, 1 >>, << 2, 0 >>}

\* the window after construction
AppInit ==
    /\ params = WorkerKwargs(ParsedForm(BaseForm))
    /\ f_fault \in FaultSet
    /\ InitLocals
    /\ InitApp

AppNext == worker_task \/ mainloop

AppSpec == AppInit /\ [][AppNext]_vars

\* ----------------------------------------- SAApp: a window used again
\* what the user has typed in a window whose run button is pressed again
\* after a session: one run of one iteration
RerunForms ==
    { [BaseForm EXCEPT !.n_runs = EntryInt(1), !.max_iter = EntryInt(1)] }

\* the run button in a window where MaxReruns sessions follow the first
on_run_again ==
    /\ sessions < 1 + MaxReruns
    /\ RunPressed(RerunForms)

RerunFaultSet == {NoFault, << 1, 1 >>}

RerunInit ==
    /\ params \in {WorkerKwargs(ParsedForm(form)) : form \in RerunForms}
    /\ f_fault \in RerunFaultSet
    /\ InitLocals
    /\ InitApp

RerunNext ==
    \/ worker_task
    \/ on_run_again
    \/ on_stop
    \/ poll_log_queue
    \/ set_progress
    \/ finish_run
    \/ config_button

RerunSpec == RerunInit /\ [][RerunNext]_vars

\* ============================================================ claims
Returned == pc = "returned"
InEngine == pc \in {"while", "for", "cool"}
TraceF(tr) == {tr[k][6] : k \in 1..Len(tr)}
TraceMin(tr) == CHOOSE m \in TraceF(tr) : \A v \in TraceF(tr) : m <= v
EntryX(e) == << e[3], e[4], e[5] >>
CalledAt(i) == \E k \in 1..Len(local_calls) : local_calls[k][1] = i

\* C1: for valid parameters the returned trace has one entry per attempted
\* step (its length is the final iteration counter, entry k carries index
\* k-1) and is never longer than max_iter.
C1_TraceLength ==
    (Returned /\ ValidParams) =>
        /\ Len(res[1].trace) = iter_count
        /\ \A k \in 1..Len(res[1].trace) : res[1].trace[k][1] = k - 1
        /\ Len(res[1].trace) <= params.max_iter

\* a run stopped by the cap in the middle of a sweep
C1_Witness ==
    /\ Returned /\ ValidParams
    /\ params.attempts_per_T = 2
    /\ Len(res[1].trace) = 1
    /\ params.max_iter = 1

\* C2: for valid parameters every call of simulated_annealing returns, and
\* on return the temperature is <= Tmin or the counter equals max_iter.
C2_Terminates ==
    (InEngine /\ ValidParams) ~>
        (Returned /\ (~TGreater(T, params.Tmin) \/ iter_count = params.max_iter))

\* a run that ended because the temperature fell to Tmin, below the cap
C2_Witness ==
    /\ Returned /\ ValidParams
    /\ ~TGreater(T, params.Tmin)
    /\ 0 < iter_count /\ iter_count < params.max_iter

\* the number of temperature levels Tc, Tc*alpha, ... strictly above Tmin
RECURSIVE Levels(_, _, _)
Levels(Tc, Tmin, alpha) ==
    IF Tc.num > Tmin * Tc.den
    THEN 1 + Levels([num |-> Tc.num * alpha.num, den |-> Tc.den * alpha.den], Tmin, alpha)
    ELSE 0

ScenarioParams ==
    /\ params.T0 = 10 /\ params.Tmin = 1 /\ params.alpha = [num |-> 1, den |-> 2]
    /\ params.attempts_per_T = 1 /\ params.max_iter = 100

\* C3: for valid parameters the number of attempted steps is
\* min(max_iter, L * attempts_per_T), L the number of temperature levels
\* strictly above Tmin; T0=10, Tmin=1, alpha=0.5, attempts_per_T=1,
\* max_iter=100 gives 4 trace entries.
C3_StepCount ==
    (Returned /\ ValidParams) =>
        /\ iter_count =
             Min(params.max_iter,
                 Levels([num |-> params.T0, den |-> 1], params.Tmin, params.alpha)
                   * params.attempts_per_T)
        /\ ScenarioParams => Len(res[1].trace) = 4

\* the scenario has returned
C3_Witness == Returned /\ ScenarioParams /\ Len(res[1].trace) = 4

\* C4: in a returned trace every entry's objective value is the objective
\* function at the state recorded in the same entry, accepted or rejected.
C4_TraceConsistent ==
    Returned =>
        \A k \in 1..Len(res[1].trace) :
            res[1].trace[k][6] = f_variant1(EntryX(res[1].trace[k]))

\* a returned trace with a rejected step after an accepted move
C4_Witness ==
    /\ Returned
    /\ \E k \in 2..Len(res[1].trace) :
         /\ EntryX(res[1].trace[k]) = EntryX(res[1].trace[k - 1])
         /\ res[1].trace[k][7] > 0
         /\ EntryX(res[1].trace[k - 1]) # x0

\* C5: a candidate with delta <= 0 is accepted, at any temperature and
\* without a uniform draw: after the step the current state and score are
\* the candidate's.
C5_AcceptImprovement ==
    (iter_count > 0 /\ last_accept.df <= 0) =>
        /\ last_accept.accept
        /\ x_curr = last_accept.x_new
        /\ f_curr = last_accept.f_new

\* a strictly better candidate at a cooled temperature has been taken
C5_Witness ==
    /\ iter_count > 0 /\ last_accept.df < 0
    /\ last_accept.T.den > 1
    /\ x_curr = last_accept.x_new /\ x_curr # last_accept.x_old

\* C6 as stated: the returned score is the minimum of the trace's objective
\* values and is not above the initial score.
C6_ReturnsBest ==
    (Returned /\ ValidParams) =>
        /\ res[1].f = TraceMin(res[1].trace)
        /\ res[1].f <= f_variant1(x0)

\* C6 amended: the returned score is the score of the returned (final
\* current) state and is the objective value of a trace entry, so it is
\* never below the minimum of the trace's objective values.
C6_ReturnsFinal ==
    (Returned /\ ValidParams) =>
        /\ res[1].f = f_variant1(res[1].x)
        /\ res[1].f \in TraceF(res[1].trace)
        /\ TraceMin(res[1].trace) <= res[1].f

\* a run that returns a score above its best and above its initial score
C6_Witness ==
    /\ Returned /\ ValidParams
    /\ res[1].f > TraceMin(res[1].trace)
    /\ res[1].f > f_variant1(x0)

\* C7: the returned best is a returned run result of minimum score, the
\* one of smallest run index among those; with one run it is that run's.
C7_BestIsFirstArgmin ==
    pc = "done" =>
        /\ Len(best) = 1
        /\ \E k \in 1..Len(all_results) : all_results[k] = best[1]
        /\ \A k \in 1..Len(all_results) :
             /\ best[1].f <= all_results[k].f
             /\ all_results[k].f = best[1].f => best[1].run <= all_results[k].run
        /\ params.n_runs = 1 => best[1] = all_results[1]

\* two runs with the same final score: the first is the best
C7_Witness ==
    /\ pc = "done"
    /\ Len(all_results) >= 2
    /\ \E k \in 2..Len(all_results) :
         all_results[k].f = all_results[1].f /\ best[1] = all_results[1]

\* C8 as stated: the progress sink is invoked at iteration 1 and at the
\* final iteration of the run, however the run ends.
C8_ProgressAtFirstAndFinal ==
    (Returned /\ iter_count > 0) => (CalledAt(1) /\ CalledAt(iter_count))

\* C8 amended: the progress sink is invoked at iteration 1 and, when the
\* run ends by the iteration cap, at the final iteration; when the run ends
\* by the temperature, the final iteration is notified only if it is 1 or
\* a multiple of the progress interval.
C8_ProgressAtFirstAndCap ==
    (Returned /\ iter_count > 0) =>
        /\ CalledAt(1)
        /\ iter_count = max_iter => CalledAt(iter_count)
        /\ (iter_count < max_iter /\ iter_count # 1
              /\ iter_count % progress_interval # 0) => ~CalledAt(iter_count)

\* a run ended by the cap at an iteration that is no multiple of the interval
C8_Witness ==
    /\ Returned /\ iter_count = max_iter /\ iter_count > 1
    /\ iter_count % progress_interval # 0
    /\ CalledAt(1) /\ CalledAt(iter_count)

\* C9 as stated: an exception raised by a sink is swallowed at every call
\* of simulated_annealing and run_multiple_runs; no session is aborted by
\* a sink that raised.
C9_SinkErrorsSwallowed == pc = "aborted" => abort_cause # "log_callback raised"

\* C10: the global progress values received by the progress sink in one
\* session are non-decreasing, within a run and from a run to the next.
C10_ProgressMonotone ==
    \A k \in 1..(Len(progress_calls) - 1) :
        progress_calls[k][1] <= progress_calls[k + 1][1]

\* a finished session whose second run has notified after the first
C10_Witness ==
    /\ pc = "done" /\ params.n_runs >= 2
    /\ \E k \in 1..(Len(progress_calls) - 1) :
         /\ progress_calls[k][1] <= per_run_max
         /\ progress_calls[k + 1][1] > per_run_max
         /\ progress_calls[k][1] > 1

LastCall(calls) == calls[Len(calls)]

\* C11 as stated: at the end of a session the last global progress value
\* given to the progress sink equals the total given with it, n_runs times
\* the per-run iteration cap, however the runs ended.
C11_FinalProgressIsTotal ==
    (pc = "done" /\ ValidParams /\ params.has_progress) =>
        /\ progress_calls # << >>
        /\ LastCall(progress_calls)[2] = params.n_runs * params.max_iter
        /\ LastCall(progress_calls)[1] = LastCall(progress_calls)[2]

\* C11 amended: the total given with every progress value is n_runs times
\* the per-run iteration cap; the last value equals it when the last run
\* ended by the cap and is below it when the last run ended by the
\* temperature before the cap.
C11_FinalProgressAtCap ==
    (pc = "done" /\ ValidParams /\ params.has_progress) =>
        /\ progress_calls # << >>
        /\ \A k \in 1..Len(progress_calls) :
             progress_calls[k][2] = params.n_runs * params.max_iter
        /\ iter_count = max_iter =>
             LastCall(progress_calls)[1] = LastCall(progress_calls)[2]
        /\ iter_count < max_iter =>
             LastCall(progress_calls)[1] < LastCall(progress_calls)[2]

\* a session of two runs whose last run ended by the temperature: its last
\* progress value is below the total
C11_Witness ==
    /\ pc = "done" /\ ValidParams /\ params.has_progress
    /\ params.n_runs = 2
    /\ iter_count < max_iter /\ ~TGreater(T, params.Tmin)
    /\ progress_calls # << >>
    /\ LastCall(progress_calls)[1] > per_run_max
    /\ LastCall(progress_calls)[1] < LastCall(progress_calls)[2]

\* C19: for a candidate with delta > 0 the engine makes exactly one uniform
\* draw u, after the three draws of the step, and accepts the candidate
\* exactly when u < exp(-delta / T) at the current temperature; a rejected
\* candidate leaves the current state vector and score unchanged.
C19_MetropolisStep ==
    (iter_count > 0 /\ last_accept.df > 0) =>
        /\ last_accept.u = random(Advance3(last_accept.g_old))
        /\ rng = Advance(Advance3(last_accept.g_old))
        /\ last_accept.accept <=> last_accept.u < AcceptProb(last_accept.df, last_accept.T)
        /\ last_accept.accept => (x_curr = last_accept.x_new /\ f_curr = last_accept.f_new)
        /\ ~last_accept.accept => (x_curr = last_accept.x_old /\ f_curr = last_accept.f_old)

\* a worse candidate has been rejected: the draw was not below the
\* acceptance probability, which was not zero
C19_Witness ==
    /\ iter_count > 0 /\ last_accept.df > 0
    /\ ~last_accept.accept
    /\ AcceptProb(last_accept.df, last_accept.T) > 0
    /\ last_accept.u >= AcceptProb(last_accept.df, last_accept.T)
    /\ x_curr = last_accept.x_old /\ x_curr # last_accept.x_new
    /\ rng = Advance(Advance3(last_accept.g_old))

\* the score before the step of row k: the previous row's, or f(x0)
PrevScore(tr, k, x_start) == IF k = 1 THEN f_variant1(x_start) ELSE tr[k - 1][6]

\* C20 as stated: in a returned trace each entry's delta equals the entry's
\* objective value minus the previous entry's objective value (for the
\* first entry, minus the score of the initial state).
C20_DeltaSincePrevious ==
    Returned =>
        \A k \in 1..Len(res[1].trace) :
            res[1].trace[k][7] = res[1].trace[k][6] - PrevScore(res[1].trace, k, x0)

\* C20 amended: each entry's delta is the candidate's score minus the score
\* before the step; it equals the entry's objective value minus the
\* previous entry's when the candidate was accepted, and when it was
\* rejected the delta is positive while the objective value and the state
\* repeat the previous entry's.
C20_DeltaOfCandidate ==
    Returned =>
        \A k \in 1..Len(res[1].trace) :
            \/ res[1].trace[k][7] = res[1].trace[k][6] - PrevScore(res[1].trace, k, x0)
            \/ /\ res[1].trace[k][7] > 0
               /\ res[1].trace[k][6] = PrevScore(res[1].trace, k, x0)
               /\ EntryX(res[1].trace[k]) = IF k = 1 THEN x0 ELSE EntryX(res[1].trace[k - 1])

\* a returned trace with an accepted move of nonzero delta and a rejected
\* candidate, whose delta is positive while the score did not change
C20_Witness ==
    /\ Returned
    /\ \E k \in 1..Len(res[1].trace) :
         /\ res[1].trace[k][7] # 0
         /\ res[1].trace[k][7] = res[1].trace[k][6] - PrevScore(res[1].trace, k, x0)
    /\ \E k \in 1..Len(res[1].trace) :
         /\ res[1].trace[k][7] > 0
         /\ res[1].trace[k][6] = PrevScore(res[1].trace, k, x0)

\* ---- a run of simulated_annealing to which no sink is given, as a
\* ---- function of its initial state, its generator and its parameters
ReplayDecided(st, x_new, f_new, df, accept) ==
    [ x |-> StateAfter(accept, x_new, st.x),
      f |-> ScoreAfter(accept, f_new, st.f),
      T |-> st.T,
      g |-> IF df > 0 THEN Advance(Advance3(st.g)) ELSE Advance3(st.g),
      i |-> st.i + 1,
      trace |-> Append(st.trace,
                       TraceEntry(st.i, st.T, StateAfter(accept, x_new, st.x),
                                  ScoreAfter(accept, f_new, st.f), df)) ]

ReplayDelta(st, x_new, f_new, df) ==
    ReplayDecided(st, x_new, f_new, df,
                  Accepts(df, st.T, IF df > 0 THEN random(Advance3(st.g)) ELSE 0))

ReplayCandidate(st, x_new, f_new) == ReplayDelta(st, x_new, f_new, f_new - st.f)

ReplayStep(st, step) ==
    ReplayCandidate(st, << st.x[1] + step[1], st.x[2] + step[2], st.x[3] + step[3] >>,
                    f_variant1(<< st.x[1] + step[1], st.x[2] + step[2], st.x[3] + step[3] >>))

ReplayAttempt(st, p) == ReplayStep(st, normal(st.g, p.step_scale))

RECURSIVE ReplaySweep(_, _, _, _)
ReplayAfter(st, a, p, cap) ==
    IF CapReached(st.i, cap) THEN st ELSE ReplaySweep(st, a + 1, p, cap)

ReplaySweep(st, a, p, cap) ==
    IF a >= p.attempts_per_T THEN st ELSE ReplayAfter(ReplayAttempt(st, p), a, p, cap)

RECURSIVE ReplayWhile(_, _, _)
ReplayCool(st, p, cap) == ReplayWhile([st EXCEPT !.T = Cooled(st.T, p.alpha)], p, cap)

ReplayWhile(st, p, cap) ==
    IF WhileCond(st.T, p.Tmin, st.i, cap)
    THEN ReplayCool(ReplaySweep(st, 0, p, cap), p, cap)
    ELSE st

ReplayResult(st) == [x |-> st.x, f |-> st.f, trace |-> st.trace]

SinkFreeRun(x_start, g, p) ==
    ReplayResult(
        ReplayWhile([x |-> x_start, f |-> f_variant1(x_start),
                     T |-> [num |-> p.T0, den |-> 1], g |-> g, i |-> 0,
                     trace |-> << >>],
                    p, IF p.max_iter <= 0 THEN DefaultMaxIter ELSE p.max_iter))

\* the master generator of a seed when run k draws its initial state
RECURSIVE MasterAt(_, _)
MasterAt(seed, k) ==
    IF k <= 1 THEN default_rng(seed) ELSE Advance3(MasterAt(seed, k - 1))

\* what run k of any session with this seed and these parameters returns
RunOfSeed(p, k) ==
    SinkFreeRun(uniform(MasterAt(p.seed, k), InitLow, InitHigh),
                default_rng(p.seed + k), p)

Summary(k, r) == [run |-> k, x |-> r.x, f |-> r.f, trace |-> r.trace]

\* C13: a session is a function of its seed, bounds and tuning parameters:
\* run k starts from the k-th triple of the master generator of the seed
\* with a generator seeded seed + k, its result is the same in every
\* session of at least k runs (whatever n_runs, the sinks and the
\* intervals are), and all_results and best follow from them.
C13_SessionReproducible ==
    /\ (InEngine \/ Returned) =>
          x0 = uniform(MasterAt(params.seed, run), InitLow, InitHigh)
    /\ (pc = "while" /\ iter_count = 0) => rng = default_rng(params.seed + run)
    /\ pc = "for_run" =>
          \A k \in 1..Len(all_results) :
              all_results[k] = Summary(k, RunOfSeed(params, k))
    /\ pc = "done" =>
          /\ Len(all_results) = params.n_runs
          /\ best = << PyMin(all_results) >>

\* a finished session of two runs that started from different states and
\* took steps
C13_Witness ==
    /\ pc = "done" /\ params.n_runs = 2 /\ params.seed > 0
    /\ all_results[1].x # all_results[2].x
    /\ Len(all_results[1].trace) >= 2 /\ Len(all_results[2].trace) >= 2
    /\ all_results[2] = Summary(2, RunOfSeed(params, 2))

\* C14: a run of simulated_annealing is a function of its initial state,
\* its parameters and the draws of its generator: it returns the trace,
\* the final state and the final score that the run with no sinks returns
\* from the same initial state with the same draws, whether sinks are
\* given and whether they raise.
C14_EngineDeterministic ==
    Returned => res[1] = SinkFreeRun(x0, default_rng(params.seed + run), params)

\* a run of at least two steps has returned after both sinks were called,
\* with sinks that may raise
C14_Witness ==
    /\ Returned /\ params.has_progress /\ params.has_log /\ params.sinks_raise
    /\ Len(res[1].trace) >= 2
    /\ local_calls # << >>
    /\ \E k \in 1..Len(log_calls) : log_calls[k].kind = "iteration" /\ log_calls[k].run = run
    /\ res[1] = SinkFreeRun(x0, default_rng(params.seed + run), params)

\* ------------------------------------------------ claims about SAApp
Range(q) == {q[k] : k \in 1..Len(q)}
WorkerEnded == worker_thread \in {"finally", "idle"} /\ delivered # << >>
AllFiles == {"excel", "csv", "png"}

\* the parameter sets the specification calls invalid
InvalidArgs(a) ==
    \/ a.T0 <= 0 \/ a.Tmin <= 0
    \/ a.alpha.num <= 0 \/ a.alpha.num >= a.alpha.den
    \/ a.attempts_per_T <= 0 \/ a.step_scale <= 0

\* C12 as stated: a parameter set with a non-positive T0 or Tmin, an alpha
\* outside (0,1), a non-positive attempts_per_T or step_scale is rejected
\* before any run starts: no worker thread is started with it and
\* run_multiple_runs is never entered with it.
C12_InvalidRejected ==
    /\ thread_args # << >> => ~InvalidArgs(thread_args[1])
    /\ (worker_thread = "runs" /\ pc # "start") => ~InvalidArgs(params)

\* C15: when a step of the export fails after the runs completed, the
\* worker logs the export-error line and not the search-failure line, and
\* calls finish_run with the state vector and the score of best (the paths
\* empty); the result fields then show them.  A worker that ended after an
\* export that did not write every file has logged the export error.
C15_ExportErrorKeepsResult ==
    /\ "export_error" \in Range(task_log) =>
          /\ pc = "done" /\ files # AllFiles
          /\ "failed" \notin Range(task_log)
          /\ delivered = << FinishRunCall(<< [x |-> best[1].x, f |-> best[1].f,
                                              paths |-> NoPaths] >>) >>
          /\ result_vars.f # << >> =>
                result_vars = [x1 |-> Format9g(best[1].x[1]),
                               x2 |-> Format9g(best[1].x[2]),
                               x3 |-> Format9g(best[1].x[3]),
                               f |-> Format9g(best[1].f),
                               excel |-> "", csv |-> "", png |-> ""]
    /\ (WorkerEnded /\ stop_checked = << FALSE >> /\ files # AllFiles) =>
          "export_error" \in Range(task_log)

\* the csv step failed after two runs, and the result fields show best
C15_Witness ==
    /\ "export_error" \in Range(task_log)
    /\ files = {"excel"}
    /\ Len(all_results) = 2
    /\ result_vars.f = Format9g(best[1].f)
    /\ result_vars.x1 = Format9g(best[1].x[1])
    /\ result_vars.excel = ""
    /\ \E k \in 1..Len(txt_log) : txt_log[k].kind = "export_error"

\* C16: when the objective raises during run k, run_multiple_runs returns
\* no aggregate: the run counter stays at k with k-1 results, no best is
\* chosen, the stop check and the export are not reached, no file is
\* written, and the worker logs the failure line and calls finish_run with
\* no result; the result fields stay empty.
C16_ObjectiveErrorPropagates ==
    abort_cause = "objective raised" =>
        /\ pc = "aborted"
        /\ run = f_fault[1] /\ Len(all_results) = run - 1
        /\ best = << >>
        /\ stop_checked = << >> /\ files = {}
        /\ Range(task_log) \subseteq {"project_dir", "starting", "failed"}
        /\ worker_thread # "runs" =>
              /\ task_log = << "project_dir", "starting", "failed" >>
              /\ delivered = << FinishRunCall(<< >>) >>
        /\ result_vars = ClearedResult

\* the objective raised in run 1 of 2 and the UI has run finish_run
C16_Witness ==
    /\ abort_cause = "objective raised"
    /\ f_fault = << 1, 1 >> /\ params.n_runs = 2
    /\ all_results = << >>
    /\ worker_thread = "idle"
    /\ lbl_progress.text = "finished (error/interrupted)"
    /\ result_vars = ClearedResult
    /\ \E k \in 1..Len(txt_log) : txt_log[k].kind = "failed"

\* C17: when the stop event is set at the check that follows
\* run_multiple_runs, every run has been executed to its normal end (its
\* result is the one of the session that was never asked to stop), no file
\* is written, the interruption is logged and finish_run is called with no
\* result; when it is not set at the check, a later stop request changes
\* nothing: the export is done and finish_run is called with the result.
C17_StopOnlyAfterRuns ==
    /\ stop_checked = << TRUE >> =>
          /\ pc = "done" /\ Len(all_results) = params.n_runs
          /\ \A k \in 1..Len(all_results) :
                all_results[k] = Summary(k, RunOfSeed(params, k))
          /\ files = {}
          /\ "interrupted" \in Range(task_log) /\ "done" \notin Range(task_log)
          /\ delivered = << FinishRunCall(<< >>) >>
          /\ result_vars = ClearedResult
    /\ (stop_event /\ worker_thread = "runs") =>
          (stop_checked = << >> /\ files = {} /\ delivered = << >>)
    /\ (stop_checked = << FALSE >> /\ WorkerEnded) =>
          /\ "done" \in Range(task_log) /\ "interrupted" \notin Range(task_log)
          /\ delivered[1].result # << >>
          /\ delivered[1].result[1].f = best[1].f

\* the stop was requested before run 1 logged anything; both runs were
\* executed and the session then ended as interrupted
C17_Witness ==
    /\ stop_checked = << TRUE >>
    /\ Len(all_results) = 2 /\ Len(all_results[2].trace) >= 2
    /\ worker_thread = "idle" /\ log_queue = << >>
    /\ \E k \in 1..Len(txt_log) :
         /\ txt_log[k].kind = "stop_requested"
         /\ \A j \in 1..(k - 1) : txt_log[j].kind \in {"project_dir", "starting"}
         /\ \E j \in (k + 1)..Len(txt_log) : txt_log[j].kind = "interrupted"
    /\ result_vars = ClearedResult

\* C18: the worker never waits for the UI: whenever the worker thread is
\* alive one of its steps is enabled, whatever number of log lines and of
\* scheduled callbacks the UI thread has not processed.
C18_WorkerNeverWaits ==
    worker_thread # "idle" => ENABLED worker_task

\* the worker is in a run while the UI has processed nothing: no line has
\* reached the log view and no callback was run
C18_Witness ==
    /\ worker_thread = "runs" /\ pc = "for" /\ run = 2
    /\ txt_log = << >>
    /\ Len(log_queue) >= 4
    /\ Len(after_queue) >= 2
    /\ lbl_progress.text = "starting"

\* C21: in every returned trace the recorded temperature is constant over
\* consecutive blocks of exactly attempts_per_T entries, each block's
\* temperature is alpha times the previous block's, the first is T0, every
\* recorded temperature is strictly greater than Tmin, and the last block is
\* shorter than attempts_per_T only when the iteration cap was hit.
C21_TemperatureBlocks ==
    Returned =>
        LET tr == res[1].trace
            a == params.attempts_per_T
        IN /\ tr # << >> => tr[1][2] = [num |-> params.T0, den |-> 1]
           /\ \A k \in 2..Len(tr) :
                tr[k][2] = IF (k - 1) % a = 0
                           THEN [num |-> tr[k - 1][2].num * params.alpha.num,
                                 den |-> tr[k - 1][2].den * params.alpha.den]
                           ELSE tr[k - 1][2]
           /\ \A k \in 1..Len(tr) : tr[k][2].num > params.Tmin * tr[k][2].den
           /\ Len(tr) % a # 0 => Len(tr) = max_iter

\* a returned trace of two full blocks of two entries, the second cooled
C21_Witness ==
    /\ Returned
    /\ params.attempts_per_T = 2
    /\ Len(res[1].trace) >= 4
    /\ res[1].trace[2][2] = res[1].trace[1][2]
    /\ res[1].trace[3][2] # res[1].trace[2][2]
    /\ res[1].trace[4][2] = res[1].trace[3][2]

\* C22 as stated: every global progress notification carries, for a local
\* iteration i of a run r, the value (r-1) * cap + i and the total
\* n_runs * cap, cap the per-run iteration cap of the engine, so every
\* value lies between 1 and the total given with it.
C22_GlobalProgressInRange ==
    \A k \in 1..Len(progress_calls) :
        /\ \E r \in 1..params.n_runs :
             /\ 1 <= progress_calls[k][1] - (r - 1) * max_iter
             /\ progress_calls[k][1] - (r - 1) * max_iter <= max_iter
        /\ progress_calls[k][2] = params.n_runs * max_iter
        /\ 1 <= progress_calls[k][1]
        /\ progress_calls[k][1] <= progress_calls[k][2]

\* C23: the state vector and score returned by simulated_annealing are the
\* state and objective value of the last trace entry; when no step was
\* attempted (empty trace) they are the initial state x0 and f(x0).
C23_ResultIsLastEntry ==
    Returned =>
        LET tr == res[1].trace
        IN IF tr = << >>
           THEN res[1].x = x0 /\ res[1].f = f_variant1(x0)
           ELSE /\ res[1].x = EntryX(tr[Len(tr)])
                /\ res[1].f = tr[Len(tr)][6]

\* a returned run whose last entry is not the best of its trace
C23_Witness ==
    /\ Returned
    /\ Len(res[1].trace) >= 2
    /\ res[1].x = EntryX(res[1].trace[Len(res[1].trace)])
    /\ res[1].f > TraceMin(res[1].trace)

\* C24 as stated: while a worker session started by on_run has not
\* finished, the run button is disabled and the stop button is enabled (so
\* no second session starts beside it); a button reset scheduled by a
\* finished session never applies to a later session.
C24_ButtonsGuardSession ==
    worker_thread # "idle" => btn_run = "disabled" /\ btn_stop = "normal"

\* the lines the current session has logged so far, in order: the two
\* lines of worker_task, the lines of run_multiple_runs, the closing lines
SessionLines ==
    IF worker_thread = "started" THEN << >>
    ELSE << Msg("project_dir"), Msg("starting") >> \o log_calls \o
         [k \in 1..(Len(task_log) - 2) |-> Msg(task_log[k + 2])]

\* the lines of a queue without the line of the stop button
WorkerLines(q) == SelectSeq(q, LAMBDA m : m.kind # "stop_requested")

IsPrefix(a, b) == Len(a) <= Len(b) /\ SubSeq(b, 1, Len(a)) = a

\* C25 as stated: after on_run has cleared the log view for a session,
\* every line poll_log_queue inserts into the view was logged by that
\* session: the view holds, in order, lines the session's worker has
\* logged (and the line of a stop request), none of an earlier session.
C25_LogViewOfSession ==
    sessions >= 1 => IsPrefix(WorkerLines(txt_log), SessionLines)

\* C26 as stated: after a session that completed successfully, once every
\* callback scheduled by the worker has run, the progress label shows the
\* ready status set by finish_run; no later callback of the session has
\* overwritten it.
C26_ReadyLabelKept ==
    ( /\ worker_thread = "idle" /\ sessions = 1
      /\ delivered # << >> /\ delivered[1].result # << >>
      /\ files = AllFiles
      /\ after_queue = << >> )
    => lbl_progress = Label("ready", 0, 0, 0)

====
